---- MODULE Spec2Model ----
(* The batch classification pipeline of src/main.py: the rule-based       *)
(* fallback classifier, the item classifier with its external call, and   *)
(* the chunked scheduler of the /analyze-opportunities endpoint.          *)
EXTENDS Integers, Sequences, FiniteSets, TLC

(* ---------------------------------------------------------------------- *)
(* Bounds                                                                 *)
(* ---------------------------------------------------------------------- *)

\* longest request drawn
MaxItems == 12

\* on a request of at most MaxFree items every call may end in any way
MaxFree == 6

\* on a longer request at most MaxFaults calls end otherwise than with the
\* nominal answer
MaxFaults == 1

(* ---------------------------------------------------------------------- *)
(* Constants of the program                                                *)
(* ---------------------------------------------------------------------- *)

OPPORTUNITY_TYPES ==
  << "Security Assessment", "Cloud Security", "Endpoint Security", "SIEM/SOC",
     "Identity Management", "Network Security", "Data Protection",
     "Vulnerability Management", "Compliance & Audit", "Incident Response",
     "Security Training", "Mainframe Security" >>

\* membership in the list OPPORTUNITY_TYPES ("in" on a Python list)
InTypes(x) == \E n \in 1..Len(OPPORTUNITY_TYPES) : OPPORTUNITY_TYPES[n] = x

batch_size == 5

\* the keywords of fallback_categorization, as character sequences
KW ==
  [ assessment |-> <<"a", "s", "s", "e", "s", "s", "m", "e", "n", "t">>,
    audit |-> <<"a", "u", "d", "i", "t">>,
    evaluation |-> <<"e", "v", "a", "l", "u", "a", "t", "i", "o", "n">>,
    cloud |-> <<"c", "l", "o", "u", "d">>,
    aws |-> <<"a", "w", "s">>,
    azure |-> <<"a", "z", "u", "r", "e">>,
    gcp |-> <<"g", "c", "p">>,
    endpoint |-> <<"e", "n", "d", "p", "o", "i", "n", "t">>,
    antivirus |-> <<"a", "n", "t", "i", "v", "i", "r", "u", "s">>,
    malware |-> <<"m", "a", "l", "w", "a", "r", "e">>,
    siem |-> <<"s", "i", "e", "m">>,
    soc |-> <<"s", "o", "c">>,
    monitoring |-> <<"m", "o", "n", "i", "t", "o", "r", "i", "n", "g">>,
    identity |-> <<"i", "d", "e", "n", "t", "i", "t", "y">>,
    access |-> <<"a", "c", "c", "e", "s", "s">>,
    mfa |-> <<"m", "f", "a">>,
    authentication |-> <<"a", "u", "t", "h", "e", "n", "t", "i", "c", "a", "t", "i", "o", "n">>,
    firewall |-> <<"f", "i", "r", "e", "w", "a", "l", "l">>,
    network |-> <<"n", "e", "t", "w", "o", "r", "k">>,
    perimeter |-> <<"p", "e", "r", "i", "m", "e", "t", "e", "r">>,
    data |-> <<"d", "a", "t", "a">>,
    encryption |-> <<"e", "n", "c", "r", "y", "p", "t", "i", "o", "n">>,
    backup |-> <<"b", "a", "c", "k", "u", "p">>,
    protection |-> <<"p", "r", "o", "t", "e", "c", "t", "i", "o", "n">>,
    vulnerability |-> <<"v", "u", "l", "n", "e", "r", "a", "b", "i", "l", "i", "t", "y">>,
    scanning |-> <<"s", "c", "a", "n", "n", "i", "n", "g">>,
    penetration |-> <<"p", "e", "n", "e", "t", "r", "a", "t", "i", "o", "n">>,
    compliance |-> <<"c", "o", "m", "p", "l", "i", "a", "n", "c", "e">>,
    regulatory |-> <<"r", "e", "g", "u", "l", "a", "t", "o", "r", "y">>,
    gdpr |-> <<"g", "d", "p", "r">>,
    hipaa |-> <<"h", "i", "p", "a", "a">>,
    incident |-> <<"i", "n", "c", "i", "d", "e", "n", "t">>,
    response |-> <<"r", "e", "s", "p", "o", "n", "s", "e">>,
    forensics |-> <<"f", "o", "r", "e", "n", "s", "i", "c", "s">>,
    training |-> <<"t", "r", "a", "i", "n", "i", "n", "g">>,
    awareness |-> <<"a", "w", "a", "r", "e", "n", "e", "s", "s">>,
    phishing |-> <<"p", "h", "i", "s", "h", "i", "n", "g">>,
    mainframe |-> <<"m", "a", "i", "n", "f", "r", "a", "m", "e">>,
    legacy |-> <<"l", "e", "g", "a", "c", "y">>,
    zos |-> <<"z", "/", "o", "s">> ]

(* ---------------------------------------------------------------------- *)
(* fallback_categorization                                                *)
(* ---------------------------------------------------------------------- *)

\* the characters of a string (TLA+ strings are atoms: the strings of the
\* opportunities drawn are spelled out here)
Chars(str) ==
  CASE str = "Cloud migration security review" -> <<"C", "l", "o", "u", "d", " ", "m", "i", "g", "r", "a", "t", "i", "o", "n", " ", "s", "e", "c", "u", "r", "i", "t", "y", " ", "r", "e", "v", "i", "e", "w">>
    [] str = "AWS workload assessment" -> <<"A", "W", "S", " ", "w", "o", "r", "k", "l", "o", "a", "d", " ", "a", "s", "s", "e", "s", "s", "m", "e", "n", "t">>
    [] str = "Cloud Audit" -> <<"C", "l", "o", "u", "d", " ", "A", "u", "d", "i", "t">>
    [] str = "" -> <<>>
    [] str = "SOC build" -> <<"S", "O", "C", " ", "b", "u", "i", "l", "d">>
    [] str = "24x7 Monitoring" -> <<"2", "4", "x", "7", " ", "M", "o", "n", "i", "t", "o", "r", "i", "n", "g">>
    [] str = "Laptop refresh" -> <<"L", "a", "p", "t", "o", "p", " ", "r", "e", "f", "r", "e", "s", "h">>
    [] str = "new hardware" -> <<"n", "e", "w", " ", "h", "a", "r", "d", "w", "a", "r", "e">>
    [] str = "Bylaws update" -> <<"B", "y", "l", "a", "w", "s", " ", "u", "p", "d", "a", "t", "e">>
    [] str = "Renewal" -> <<"R", "e", "n", "e", "w", "a", "l">>
    [] str = "Q3" -> <<"Q", "3">>
    [] str = "GDPR hold" -> <<"G", "D", "P", "R", " ", "h", "o", "l", "d">>
    [] str = "Z/OS" -> <<"Z", "/", "O", "S">>
    [] str = "Legacy MFA" -> <<"L", "e", "g", "a", "c", "y", " ", "M", "F", "A">>
    [] str = "Associated Press" -> <<"A", "s", "s", "o", "c", "i", "a", "t", "e", "d", " ", "P", "r", "e", "s", "s">>
    [] str = "Endpoint rollout" -> <<"E", "n", "d", "p", "o", "i", "n", "t", " ", "r", "o", "l", "l", "o", "u", "t">>
    [] str = "Antivirus and malware cleanup" -> <<"A", "n", "t", "i", "v", "i", "r", "u", "s", " ", "a", "n", "d", " ", "m", "a", "l", "w", "a", "r", "e", " ", "c", "l", "e", "a", "n", "u", "p">>
    [] str = "Firewall refresh" -> <<"F", "i", "r", "e", "w", "a", "l", "l", " ", "r", "e", "f", "r", "e", "s", "h">>
    [] str = "Perimeter Network" -> <<"P", "e", "r", "i", "m", "e", "t", "e", "r", " ", "N", "e", "t", "w", "o", "r", "k">>
    [] str = "Backup" -> <<"B", "a", "c", "k", "u", "p">>
    [] str = "Encryption of data" -> <<"E", "n", "c", "r", "y", "p", "t", "i", "o", "n", " ", "o", "f", " ", "d", "a", "t", "a">>
    [] str = "Pen test" -> <<"P", "e", "n", " ", "t", "e", "s", "t">>
    [] str = "Vulnerability scanning" -> <<"V", "u", "l", "n", "e", "r", "a", "b", "i", "l", "i", "t", "y", " ", "s", "c", "a", "n", "n", "i", "n", "g">>
    [] str = "HIPAA readiness" -> <<"H", "I", "P", "A", "A", " ", "r", "e", "a", "d", "i", "n", "e", "s", "s">>
    [] str = "Regulatory" -> <<"R", "e", "g", "u", "l", "a", "t", "o", "r", "y">>
    [] str = "Forensics retainer" -> <<"F", "o", "r", "e", "n", "s", "i", "c", "s", " ", "r", "e", "t", "a", "i", "n", "e", "r">>
    [] str = "Incident" -> <<"I", "n", "c", "i", "d", "e", "n", "t">>
    [] str = "Phishing drill" -> <<"P", "h", "i", "s", "h", "i", "n", "g", " ", "d", "r", "i", "l", "l">>
    [] str = "Awareness training" -> <<"A", "w", "a", "r", "e", "n", "e", "s", "s", " ", "t", "r", "a", "i", "n", "i", "n", "g">>
    [] str = "Mainframe" -> <<"M", "a", "i", "n", "f", "r", "a", "m", "e">>
    [] str = "RACF" -> <<"R", "A", "C", "F">>
    [] str = "Azure AD" -> <<"A", "z", "u", "r", "e", " ", "A", "D">>
    [] str = "Identity and access" -> <<"I", "d", "e", "n", "t", "i", "t", "y", " ", "a", "n", "d", " ", "a", "c", "c", "e", "s", "s">>
    [] str = "Evaluation" -> <<"E", "v", "a", "l", "u", "a", "t", "i", "o", "n">>
    [] str = "GCP" -> <<"G", "C", "P">>
    [] str = "Data" -> <<"D", "a", "t", "a">>
    [] str = "SIEM" -> <<"S", "I", "E", "M">>
    [] str = "authentication" -> <<"a", "u", "t", "h", "e", "n", "t", "i", "c", "a", "t", "i", "o", "n">>
    [] str = "Legacy" -> <<"L", "e", "g", "a", "c", "y">>

\* str.lower() on one character (ASCII letters are all the inputs use)
lower_char(c) ==
  CASE c = "A" -> "a"
    [] c = "B" -> "b"
    [] c = "C" -> "c"
    [] c = "D" -> "d"
    [] c = "E" -> "e"
    [] c = "F" -> "f"
    [] c = "G" -> "g"
    [] c = "H" -> "h"
    [] c = "I" -> "i"
    [] c = "J" -> "j"
    [] c = "K" -> "k"
    [] c = "L" -> "l"
    [] c = "M" -> "m"
    [] c = "N" -> "n"
    [] c = "O" -> "o"
    [] c = "P" -> "p"
    [] c = "Q" -> "q"
    [] c = "R" -> "r"
    [] c = "S" -> "s"
    [] c = "T" -> "t"
    [] c = "U" -> "u"
    [] c = "V" -> "v"
    [] c = "W" -> "w"
    [] c = "X" -> "x"
    [] c = "Y" -> "y"
    [] c = "Z" -> "z"
    [] OTHER -> c

\* str.lower()
lower(s) == [n \in 1..Len(s) |-> lower_char(s[n])]

\* "x or ''" on an Optional[str]: None is {}, a string s is {s}
OrEmpty(o) == IF o = {} THEN "" ELSE CHOOSE s \in o : TRUE

\* variant: the on-hold reason left out of the text
search_text_noreason(opportunity) ==
  lower(Chars(opportunity.opportunityName) \o <<" ">>
        \o Chars(opportunity.description) \o <<" ">>)

\* the f-string of line 166, lower-cased
search_text(opportunity) ==
  lower(Chars(opportunity.opportunityName) \o <<" ">>
        \o Chars(opportunity.description) \o <<" ">>
        \o Chars(OrEmpty(opportunity.onHoldReason)))

\* "kw in text" on strings: kw occurs as a contiguous substring
Contains(text, kw) ==
  \E s \in 1..(Len(text) - Len(kw) + 1) : SubSeq(text, s, s + Len(kw) - 1) = kw

\* the constructor OpportunityAnalysis(type=, confidence=, reasoning=)
OpportunityAnalysis(type, confidence, reasoning) ==
  [type |-> type, confidence |-> confidence, reasoning |-> reasoning]

fallback_categorization(opportunity) ==
  LET text == search_text(opportunity)
      Has(kw) == Contains(text, kw)
  IN  IF Has(KW.assessment) \/ Has(KW.audit) \/ Has(KW.evaluation)
        THEN OpportunityAnalysis("Security Assessment", 70, "Contains assessment/audit keywords")
      ELSE IF Has(KW.cloud) \/ Has(KW.aws) \/ Has(KW.azure) \/ Has(KW.gcp)
        THEN OpportunityAnalysis("Cloud Security", 75, "Contains cloud platform keywords")
      ELSE IF Has(KW.endpoint) \/ Has(KW.antivirus) \/ Has(KW.malware)
        THEN OpportunityAnalysis("Endpoint Security", 75, "Contains endpoint security keywords")
      ELSE IF Has(KW.siem) \/ Has(KW.soc) \/ Has(KW.monitoring)
        THEN OpportunityAnalysis("SIEM/SOC", 80, "Contains SIEM/SOC keywords")
      ELSE IF Has(KW.identity) \/ Has(KW.access) \/ Has(KW.mfa) \/ Has(KW.authentication)
        THEN OpportunityAnalysis("Identity Management", 75, "Contains identity management keywords")
      ELSE IF Has(KW.firewall) \/ Has(KW.network) \/ Has(KW.perimeter)
        THEN OpportunityAnalysis("Network Security", 75, "Contains network security keywords")
      ELSE IF Has(KW.data) \/ Has(KW.encryption) \/ Has(KW.backup) \/ Has(KW.protection)
        THEN OpportunityAnalysis("Data Protection", 75, "Contains data protection keywords")
      ELSE IF Has(KW.vulnerability) \/ Has(KW.scanning) \/ Has(KW.penetration)
        THEN OpportunityAnalysis("Vulnerability Management", 75, "Contains vulnerability management keywords")
      ELSE IF Has(KW.compliance) \/ Has(KW.regulatory) \/ Has(KW.gdpr) \/ Has(KW.hipaa)
        THEN OpportunityAnalysis("Compliance & Audit", 75, "Contains compliance keywords")
      ELSE IF Has(KW.incident) \/ Has(KW.response) \/ Has(KW.forensics)
        THEN OpportunityAnalysis("Incident Response", 75, "Contains incident response keywords")
      ELSE IF Has(KW.training) \/ Has(KW.awareness) \/ Has(KW.phishing)
        THEN OpportunityAnalysis("Security Training", 75, "Contains security training keywords")
      ELSE IF Has(KW.mainframe) \/ Has(KW.legacy) \/ Has(KW.zos)
        THEN OpportunityAnalysis("Mainframe Security", 80, "Contains mainframe keywords")
      ELSE OpportunityAnalysis("Security Assessment", 40, "Default fallback categorization")

(* ---------------------------------------------------------------------- *)
(* The external service's answers                                          *)
(* ---------------------------------------------------------------------- *)

\* a JSON value of a parsed object: absent (dict.get gives None), a string
\* or an integer
JAbsent == [k |-> "absent", s |-> "", n |-> 0]
JStr(x) == [k |-> "str", s |-> x, n |-> 0]
JInt(x) == [k |-> "int", s |-> "", n |-> x]

\* what json.loads produced: a JSONDecodeError, a value that is no object,
\* or an object with (some of) the three fields
JError == [ok |-> FALSE, kind |-> "error", type |-> JAbsent, confidence |-> JAbsent, reasoning |-> JAbsent]
JArray == [ok |-> TRUE, kind |-> "array", type |-> JAbsent, confidence |-> JAbsent, reasoning |-> JAbsent]
JObject(t, c, r) == [ok |-> TRUE, kind |-> "object", type |-> t, confidence |-> c, reasoning |-> r]

\* the generated texts the service is taken to return
C_ok == "{\"type\": \"Cloud Security\", \"confidence\": 85, \"reasoning\": \"ai\"}"
C_pad == "\n {\"type\": \"Cloud Security\", \"confidence\": 85, \"reasoning\": \"ai\"} \n"
C_hi == "{\"type\": \"Network Security\", \"confidence\": 150, \"reasoning\": \"ai\"}"
C_neg == "{\"type\": \"Data Protection\", \"confidence\": -5, \"reasoning\": \"ai\"}"
C_word == "{\"type\": \"Cloud Security\", \"confidence\": \"high\", \"reasoning\": \"ai\"}"
C_noconf == "{\"type\": \"Cloud Security\", \"reasoning\": \"ai\"}"
C_badtype == "{\"type\": \"Cloud\", \"confidence\": 85, \"reasoning\": \"ai\"}"
C_lowtype == "{\"type\": \"cloud security\", \"confidence\": 85, \"reasoning\": \"ai\"}"
C_notype == "{\"confidence\": 85, \"reasoning\": \"ai\"}"
C_prose == "This looks like Cloud Security."
C_array == "[]"
C_empty == ""

Contents ==
  { C_ok, C_pad, C_hi, C_neg, C_word, C_noconf, C_badtype, C_lowtype,
    C_notype, C_prose, C_array, C_empty }

\* str.strip(): leading and trailing whitespace removed
strip(content) == IF content = C_pad THEN C_ok ELSE content

\* json.loads on the stripped text
json_loads(text) ==
  CASE text = C_ok      -> JObject(JStr("Cloud Security"), JInt(85), JStr("ai"))
    [] text = C_hi      -> JObject(JStr("Network Security"), JInt(150), JStr("ai"))
    [] text = C_neg     -> JObject(JStr("Data Protection"), JInt(0 - 5), JStr("ai"))
    [] text = C_word    -> JObject(JStr("Cloud Security"), JStr("high"), JStr("ai"))
    [] text = C_noconf  -> JObject(JStr("Cloud Security"), JAbsent, JStr("ai"))
    [] text = C_badtype -> JObject(JStr("Cloud"), JInt(85), JStr("ai"))
    [] text = C_lowtype -> JObject(JStr("cloud security"), JInt(85), JStr("ai"))
    [] text = C_notype  -> JObject(JAbsent, JInt(85), JStr("ai"))
    [] text = C_array   -> JArray
    [] OTHER            -> JError

\* the outcome of client.post: an exception of the transport (net is
\* "timeout" or "error"), or a response with a status and the generated
\* text that lines 141-142 extract ('' when the body has none)
Response(net, status, content) == [net |-> net, status |-> status, content |-> content]

\* the outcomes of the eight kinds a call may have (a valid answer, a
\* timeout, a transport error, a status other than 200, no text, text that is
\* no JSON, a missing field, a type outside the list), and a valid answer
\* whose confidence is 150
Responses ==
  { Response("timeout", 0, ""), Response("error", 0, ""), Response("ok", 500, "") }
  \cup { Response("ok", 200, c) : c \in { C_ok, C_hi, C_noconf, C_badtype, C_prose, C_empty } }

\* the finer outcomes the item classifier is tried on when on its own
ItemResponses ==
  Responses \cup { Response("ok", 429, C_ok) } \cup { Response("ok", 200, c) : c \in Contents }

\* the answer of a healthy service
Nominal == Response("ok", 200, C_ok)

(* ---------------------------------------------------------------------- *)
(* analyze_single_opportunity                                             *)
(* ---------------------------------------------------------------------- *)

\* what a block of code did: raised, or returned value
Raised == [raised |-> TRUE, value |-> <<>>]
Returned(v) == [raised |-> FALSE, value |-> v]

\* variant: any string is accepted as a type
ValidType_any(analysis_data) == analysis_data.type.k = "str"

\* line 151: analysis_data.get('type') in OPPORTUNITY_TYPES
ValidType(analysis_data) ==
  analysis_data.type.k = "str" /\ InTypes(analysis_data.type.s)

\* variant: a confidence outside 0..100 fails validation
Validates_range(analysis_data) ==
  /\ analysis_data.type.k = "str"
  /\ analysis_data.confidence.k = "int"
  /\ analysis_data.confidence.n \in 0..100
  /\ analysis_data.reasoning.k = "str"

\* line 155, OpportunityAnalysis(**analysis_data): the three fields are
\* required, type and reasoning strings, confidence an integer
Validates(analysis_data) ==
  /\ analysis_data.type.k = "str"
  /\ analysis_data.confidence.k = "int"
  /\ analysis_data.reasoning.k = "str"

\* the try block, lines 112-156
TryBody(opportunity, resp) ==
  IF resp.net # "ok" THEN Raised
  ELSE IF resp.status # 200 THEN Raised
  ELSE IF resp.content = "" THEN Raised
  ELSE LET analysis_data == json_loads(strip(resp.content))
       IN  IF ~analysis_data.ok THEN Raised
           ELSE IF analysis_data.kind # "object" THEN Raised
           \* lines 151-155: analysis_data becomes the fallback's model
           \* object, which ** cannot unpack: TypeError
           ELSE IF ~ValidType(analysis_data) THEN Raised
           ELSE IF ~Validates(analysis_data) THEN Raised
           ELSE Returned(<< opportunity.id,
                            OpportunityAnalysis(analysis_data.type.s,
                                                analysis_data.confidence.n,
                                                analysis_data.reasoning.s) >>)

\* variant: the except block answers with the default category
Handler_default(opportunity) ==
  << opportunity.id,
     OpportunityAnalysis("Security Assessment", 40, "Default fallback categorization") >>

\* the except block, lines 158-162
Handler(opportunity) == << opportunity.id, fallback_categorization(opportunity) >>

analyze_single_opportunity(opportunity, resp) ==
  LET body == TryBody(opportunity, resp)
  IN  IF body.raised THEN Handler(opportunity) ELSE body.value

(* ---------------------------------------------------------------------- *)
(* Requests                                                                *)
(* ---------------------------------------------------------------------- *)

\* names, descriptions and on-hold reasons of the opportunities drawn
Catalogue ==
  << [opportunityName |-> "Cloud migration security review", description |-> "AWS workload assessment", onHoldReason |-> {}],
     [opportunityName |-> "Cloud Audit", description |-> "", onHoldReason |-> {}],
     [opportunityName |-> "SOC build", description |-> "24x7 Monitoring", onHoldReason |-> {""}],
     [opportunityName |-> "Laptop refresh", description |-> "new hardware", onHoldReason |-> {}],
     [opportunityName |-> "Bylaws update", description |-> "", onHoldReason |-> {}],
     [opportunityName |-> "Renewal", description |-> "Q3", onHoldReason |-> {"GDPR hold"}],
     [opportunityName |-> "Z/OS", description |-> "Legacy MFA", onHoldReason |-> {}],
     [opportunityName |-> "Associated Press", description |-> "", onHoldReason |-> {}] >>

Ids == << "o1", "o2", "o3", "o4", "o5", "o6", "o7", "o8", "o9", "o10", "o11", "o12", "o13" >>

\* OpportunityForAnalysis
Opportunity(id, c) ==
  [id |-> id, opportunityName |-> Catalogue[c].opportunityName,
   description |-> Catalogue[c].description, onHoldReason |-> Catalogue[c].onHoldReason]

Cyc(k, m) == ((k - 1) % m) + 1

\* the requests drawn: n opportunities taking their texts from the catalogue
\* in turn, with pairwise distinct ids (period 0) or ids repeating with a
\* period
MkRequest(n, period) ==
  [k \in 1..n |-> Opportunity(Ids[IF period = 0 THEN k ELSE Cyc(k, period)], Cyc(k, Len(Catalogue)))]

IdPeriods == {0, 4}

Requests == { MkRequest(n, p) : n \in 0..MaxItems, p \in IdPeriods }

\* further texts the fallback is tried on when the item classifier is on its own
ExtraCatalogue ==
  << [opportunityName |-> "Endpoint rollout", description |-> "Antivirus and malware cleanup", onHoldReason |-> {}],
     [opportunityName |-> "Firewall refresh", description |-> "Perimeter Network", onHoldReason |-> {""}],
     [opportunityName |-> "Backup", description |-> "Encryption of data", onHoldReason |-> {}],
     [opportunityName |-> "Pen test", description |-> "Vulnerability scanning", onHoldReason |-> {}],
     [opportunityName |-> "HIPAA readiness", description |-> "Regulatory", onHoldReason |-> {}],
     [opportunityName |-> "Forensics retainer", description |-> "", onHoldReason |-> {"Incident"}],
     [opportunityName |-> "Phishing drill", description |-> "Awareness training", onHoldReason |-> {}],
     [opportunityName |-> "Mainframe", description |-> "RACF", onHoldReason |-> {}],
     [opportunityName |-> "Azure AD", description |-> "Identity and access", onHoldReason |-> {}],
     [opportunityName |-> "", description |-> "", onHoldReason |-> {}],
     [opportunityName |-> "Evaluation", description |-> "GCP", onHoldReason |-> {"Data"}],
     [opportunityName |-> "SIEM", description |-> "authentication", onHoldReason |-> {"Legacy"}] >>

\* the opportunities the item classifier is applied to on its own
ItemOpps ==
  { Opportunity(Ids[c], c) : c \in 1..Len(Catalogue) }
  \cup { [id |-> "x", opportunityName |-> ExtraCatalogue[c].opportunityName,
          description |-> ExtraCatalogue[c].description,
          onHoldReason |-> ExtraCatalogue[c].onHoldReason] : c \in 1..Len(ExtraCatalogue) }

\* every opportunity a request may hold
AllOpps == { Opportunity(Ids[a], c) : a \in 1..Len(Ids), c \in 1..Len(Catalogue) }

\* analyze_single_opportunity is a function of the opportunity and of the
\* outcome of its call: its values, computed once
Invocation == [o \in AllOpps |-> [r \in Responses |-> analyze_single_opportunity(o, r)]]

(* ---------------------------------------------------------------------- *)
(* State                                                                   *)
(* ---------------------------------------------------------------------- *)

VARIABLES
  request,    \* request.opportunities, a sequence of OpportunityForAnalysis
  pc,         \* where analyze_opportunities stands: "recv", "gather", "sleep", "done"
  i,          \* the loop variable of line 268
  tasks,      \* per item, its analyze_single_opportunity invocation
  results,    \* the dict results
  response,   \* what the endpoint answered
  pauses,     \* number of asyncio.sleep(1) begun
  calls,      \* per item, number of client.post calls issued
  faults,     \* abnormal outcomes so far on a request longer than MaxFree
  chunks,     \* the slices launched so far, each the positions of its items
  svc,        \* the outcome the external service has for each item, when fixed
  itemOpp,    \* the item classifier on its own: its opportunity,
  itemResp,   \*   the outcome of its external call,
  itemOut     \*   and what it returned

vars == << request, pc, i, tasks, results, response, pauses, calls, faults,
           chunks, svc, itemOpp, itemResp, itemOut >>

schedVars == << request, pc, i, tasks, results, response, pauses, calls, faults,
                chunks, svc >>
itemVars == << itemOpp, itemResp, itemOut >>

\* a dict is a function on its key set
EmptyDict == [x \in {} |-> 0]
Put(d, key, val) == (key :> val) @@ d

\* the state of an invocation: not created, awaiting client.post, returned
\* its pair, or raised
NewTask == [st |-> "new", value |-> <<>>]
InFlight == [st |-> "in_flight", value |-> <<>>]
ReturnedTask(v) == [st |-> "returned", value |-> v]
RaisedTask == [st |-> "raised", value |-> <<>>]

NoResponse == [status |-> 0]

\* raise HTTPException(status_code=400, ...)
HTTPException400 == [status |-> 400, detail |-> "No opportunities provided for analysis"]

\* variant: the number of items of the request
ProcessedCount_items(res) == Len(request)

\* len(results)
ProcessedCount(res) == Cardinality(DOMAIN res)

\* AnalysisResponse(results=results, processed_count=len(results), ...)
AnalysisResponse(res) ==
  [status |-> 200, results |-> res, processed_count |-> ProcessedCount(res)]

(* ---------------------------------------------------------------------- *)
(* analyze_opportunities                                                   *)
(* ---------------------------------------------------------------------- *)

\* variant: the check of line 259 left out
IsEmpty_never(opportunities) == FALSE

\* line 259: not request.opportunities
IsEmpty(opportunities) == Len(opportunities) = 0

\* variant: the slice one short, [start:start + batch_size - 1]
Batch_short(start) ==
  { k \in 1..Len(request) : start < k /\ k <= start + batch_size - 1 }

\* variant: the slice without its end, [start:]
Batch_open(start) == { k \in 1..Len(request) : start < k }

\* line 269: the positions of request.opportunities[start:start + batch_size]
Batch(start) ==
  { k \in 1..Len(request) : start < k /\ k <= start + batch_size }

\* variant: the wait is for every item of the request, launched or not
GatherDone_whole(start) ==
  \A k \in DOMAIN tasks : tasks[k].st \in {"returned", "raised"}

\* variant: the wait ends with the first awaitable that settles
GatherDone_first(start) == \E k \in Batch(start) : tasks[k].st # "in_flight"

\* line 273: asyncio.gather returns once every awaitable of the chunk settled
GatherDone(start) == \A k \in Batch(start) : tasks[k].st # "in_flight"

\* variant: <= for <
MoreChunks_le(start) == start + batch_size <= Len(request)

\* line 284: another chunk follows
MoreChunks(start) == start + batch_size < Len(request)

Min(S) == CHOOSE k \in S : \A j \in S : k <= j

\* variant: break for continue, the loop ends at the first exception
RECURSIVE InsertAll_break(_, _)
InsertAll_break(res, ks) ==
  IF ks = {} THEN res
  ELSE LET k == Min(ks)
       IN  IF tasks[k].st = "raised" THEN res
           ELSE InsertAll_break(IF tasks[k].st = "returned"
                                  THEN Put(res, tasks[k].value[1], tasks[k].value[2])
                                  ELSE res,
                                ks \ {k})

\* variant: the results taken last to first
RECURSIVE InsertAll_reverse(_, _)
InsertAll_reverse(res, ks) ==
  IF ks = {} THEN res
  ELSE LET k == CHOOSE m \in ks : \A j \in ks : j <= m
           next == IF tasks[k].st = "returned"
                     THEN Put(res, tasks[k].value[1], tasks[k].value[2])
                     ELSE res
       IN  InsertAll_reverse(next, ks \ {k})

\* variant: the dict is rebound to the single pair, results = {opp_id: analysis}
RECURSIVE InsertAll_rebind(_, _)
InsertAll_rebind(res, ks) ==
  IF ks = {} THEN res
  ELSE LET k == Min(ks)
           next == IF tasks[k].st = "returned"
                     THEN Put(EmptyDict, tasks[k].value[1], tasks[k].value[2])
                     ELSE res
       IN  InsertAll_rebind(next, ks \ {k})

\* lines 275-281: the results of the chunk, in launch order; an exception
\* is skipped, a pair is stored under its id. The loop is at position k of
\* the request and stores the positions that belong to the chunk ks
RECURSIVE InsertFrom(_, _, _)
InsertFrom(res, ks, k) ==
  IF k > Len(request) THEN res
  ELSE InsertFrom(IF k \in ks /\ tasks[k].st = "returned"
                    THEN Put(res, tasks[k].value[1], tasks[k].value[2])
                    ELSE res,
                  ks, k + 1)

InsertAll(res, ks) == InsertFrom(res, ks, 1)

\* the members of a set of positions, in increasing order
InOrder(S) ==
  [n \in 1..Cardinality(S) |-> CHOOSE k \in S : Cardinality({ j \in S : j < k }) = n - 1]

\* lines 272-273: the chunk's coroutines are created and gathered; each runs
\* to its client.post
Launch(start) ==
  /\ tasks' = [k \in DOMAIN tasks |-> IF k \in Batch(start) THEN InFlight ELSE tasks[k]]
  /\ calls' = [k \in DOMAIN calls |-> IF k \in Batch(start) THEN calls[k] + 1 ELSE calls[k]]
  /\ chunks' = Append(chunks, InOrder(Batch(start)))

\* the for statement of line 268 reaching start with the dict res: the
\* next chunk is launched, or the loop is over and lines 287-291 answer
Iterate(start, res) ==
  /\ results' = res
  /\ IF start < Len(request)
       THEN /\ i' = start
            /\ Launch(start)
            /\ pc' = "gather"
            /\ response' = response
       ELSE /\ i' = i
            /\ pc' = "done"
            /\ response' = AnalysisResponse(res)
            /\ UNCHANGED << tasks, calls, chunks >>

\* lines 259-260
Reject ==
  /\ pc = "recv"
  /\ IsEmpty(request)
  /\ pc' = "done"
  /\ response' = HTTPException400
  /\ UNCHANGED << request, i, tasks, results, pauses, calls, faults, chunks, svc, itemVars >>

\* lines 262-273, up to the first await of gather
Begin ==
  /\ pc = "recv"
  /\ ~IsEmpty(request)
  /\ Iterate(0, EmptyDict)
  /\ UNCHANGED << request, pauses, faults, svc, itemVars >>

\* the external service may answer anything on a short request; on a long
\* one at most MaxFaults calls end otherwise than nominally
MayFault == Len(request) <= MaxFree \/ faults < MaxFaults

CountFault == IF Len(request) <= MaxFree THEN faults ELSE faults + 1

\* the call of item k completes with outcome r and the invocation returns
Settle(k) ==
  /\ tasks[k].st = "in_flight"
  /\ \E r \in (IF MayFault THEN Responses ELSE {Nominal}) :
       /\ tasks' = [tasks EXCEPT ![k] =
                      ReturnedTask(Invocation[request[k]][r])]
       /\ faults' = IF r = Nominal THEN faults ELSE CountFault
  /\ UNCHANGED << request, pc, i, results, response, pauses, calls, chunks, svc, itemVars >>

\* an exception leaves the invocation of item k (raised outside the try
\* block or inside the except block); gather(return_exceptions=True) hands
\* it back as the item's result
Escape(k) ==
  /\ tasks[k].st = "in_flight"
  /\ MayFault
  /\ tasks' = [tasks EXCEPT ![k] = RaisedTask]
  /\ faults' = CountFault
  /\ UNCHANGED << request, pc, i, results, response, pauses, calls, chunks, svc, itemVars >>

\* lines 273-285: gather returns, the results are stored and the pause begins
GatheredSleep ==
  /\ pc = "gather"
  /\ GatherDone(i)
  /\ MoreChunks(i)
  /\ results' = InsertAll(results, Batch(i))
  /\ pauses' = pauses + 1
  /\ pc' = "sleep"
  /\ UNCHANGED << request, i, tasks, response, calls, faults, chunks, svc, itemVars >>

\* lines 273-291: gather returns on the last chunk, the results are stored
\* and the response is returned
GatheredReturn ==
  /\ pc = "gather"
  /\ GatherDone(i)
  /\ ~MoreChunks(i)
  /\ Iterate(i + batch_size, InsertAll(results, Batch(i)))
  /\ UNCHANGED << request, pauses, faults, svc, itemVars >>

\* line 285 completes and the loop goes on
Wake ==
  /\ pc = "sleep"
  /\ Iterate(i + batch_size, results)
  /\ UNCHANGED << request, pauses, faults, svc, itemVars >>

\* the idle values of the item classifier's variables
IdleItem ==
  /\ itemOpp = Opportunity(Ids[1], 1)
  /\ itemResp = Nominal
  /\ itemOut = <<>>

Init ==
  /\ request \in Requests
  /\ pc = "recv"
  /\ i = 0
  /\ tasks = [k \in 1..Len(request) |-> NewTask]
  /\ results = EmptyDict
  /\ response = NoResponse
  /\ pauses = 0
  /\ calls = [k \in 1..Len(request) |-> 0]
  /\ faults = 0
  /\ chunks = << >>
  /\ svc = << >>
  /\ IdleItem

Next ==
  \/ Reject
  \/ Begin
  \/ \E k \in DOMAIN tasks : Settle(k)
  \/ \E k \in DOMAIN tasks : Escape(k)
  \/ GatheredSleep
  \/ GatheredReturn
  \/ Wake

Spec == Init /\ [][Next]_vars

\* every external call settles (client.post answers, fails or times out after
\* 30 s), every asyncio.sleep(1) ends, and the event loop runs the handler
\* whenever it can go on
Fairness ==
  /\ WF_vars(Reject)
  /\ WF_vars(Begin)
  /\ WF_vars(\E k \in DOMAIN tasks : Settle(k) \/ Escape(k))
  /\ WF_vars(GatheredSleep)
  /\ WF_vars(GatheredReturn)
  /\ WF_vars(Wake)

SpecFair == Init /\ [][Next]_vars /\ Fairness

(* ---------------------------------------------------------------------- *)
(* The endpoint in front of a service with fixed outcomes                   *)
(* ---------------------------------------------------------------------- *)

\* the invocation of an item raises instead of returning its pair
RaiseOutcome == Response("raise", 0, "")

\* what a troubled call ends with: a timeout, a server error, an answer
\* whose type is not in the list, an exception leaving the invocation
FaultyOutcomes ==
  { Response("timeout", 0, ""), Response("ok", 500, ""), Response("ok", 200, C_badtype),
    RaiseOutcome }

\* the services that answer nominally except on at most MaxFaults items of req
Services(req) ==
  UNION { { [k \in 1..Len(req) |-> IF k \in S THEN g[k] ELSE Nominal] :
              g \in [S -> FaultyOutcomes] } :
          S \in { T \in SUBSET (1..Len(req)) : Cardinality(T) <= MaxFaults } }

InitSvc ==
  /\ request \in Requests
  /\ pc = "recv"
  /\ i = 0
  /\ tasks = [k \in 1..Len(request) |-> NewTask]
  /\ results = EmptyDict
  /\ response = NoResponse
  /\ pauses = 0
  /\ calls = [k \in 1..Len(request) |-> 0]
  /\ faults = 0
  /\ chunks = << >>
  /\ svc \in Services(request)
  /\ IdleItem

\* the call of item k completes with the outcome the service has for it
SettleSvc(k) ==
  /\ tasks[k].st = "in_flight"
  /\ tasks' = [tasks EXCEPT ![k] =
                 IF svc[k] = RaiseOutcome
                   THEN RaisedTask
                   ELSE ReturnedTask(Invocation[request[k]][svc[k]])]
  /\ UNCHANGED << request, pc, i, results, response, pauses, calls, faults, chunks, svc, itemVars >>

NextSvc ==
  \/ Reject
  \/ Begin
  \/ \E k \in DOMAIN tasks : SettleSvc(k)
  \/ GatheredSleep
  \/ GatheredReturn
  \/ Wake

SpecSvc == InitSvc /\ [][NextSvc]_vars

(* ---------------------------------------------------------------------- *)
(* The item classifier on its own                                          *)
(* ---------------------------------------------------------------------- *)

InitItem ==
  /\ request = << >>
  /\ pc = "item"
  /\ i = 0
  /\ tasks = << >>
  /\ results = EmptyDict
  /\ response = NoResponse
  /\ pauses = 0
  /\ calls = << >>
  /\ faults = 0
  /\ chunks = << >>
  /\ svc = << >>
  /\ itemOpp \in ItemOpps
  /\ itemResp \in ItemResponses
  /\ itemOut = << >>

\* one invocation of analyze_single_opportunity whose call ended with itemResp
Classify ==
  /\ pc = "item"
  /\ itemOut = << >>
  /\ itemOut' = analyze_single_opportunity(itemOpp, itemResp)
  /\ UNCHANGED << schedVars, itemOpp, itemResp >>

NextItem == Classify

SpecItem == InitItem /\ [][NextItem]_vars

(* ---------------------------------------------------------------------- *)
(* Properties                                                              *)
(* ---------------------------------------------------------------------- *)

N == Len(request)

RequestIds == { request[k].id : k \in 1..N }

DistinctIds == \A a, b \in 1..N : a # b => request[a].id # request[b].id

\* the endpoint returned its AnalysisResponse
Answered == pc = "done" /\ response.status = 200

NoneRaised == \A k \in DOMAIN tasks : tasks[k].st # "raised"

InFlightSet == { k \in DOMAIN tasks : tasks[k].st = "in_flight" }

Settled(k) == tasks[k].st \in {"returned", "raised"}

\* the chunk of the k-th item: chunks of five, in order
ChunkOf(k) == (k - 1) \div 5

\* C1: an accepted batch with pairwise distinct ids, whatever the outcome of
\* each external call, is answered with a mapping whose keys are exactly the
\* input ids, each id holding the result its item's invocation returned
C1_EveryItemYieldsOneResult ==
  (pc = "done" /\ N > 0 /\ DistinctIds /\ NoneRaised) =>
     /\ response.status = 200
     /\ DOMAIN response.results = RequestIds
     /\ \A k \in 1..N : /\ tasks[k].st = "returned"
                        /\ tasks[k].value[1] = request[k].id
                        /\ response.results[request[k].id] = tasks[k].value[2]

\* a batch of more than one chunk with distinct ids is answered, one item
\* having gone to the fallback and another holding the service's answer
C1_Witness ==
  /\ Answered /\ N > 5 /\ DistinctIds /\ NoneRaised
  /\ \E k \in 1..N : response.results[request[k].id].reasoning = "ai"
  /\ \E k \in 1..N : response.results[request[k].id] = fallback_categorization(request[k])

\* the failures of a call that C2 lists
ListedFailure(resp) ==
  \/ resp.net \in {"timeout", "error"}
  \/ resp.net = "ok" /\ resp.status # 200
  \/ resp.net = "ok" /\ resp.status = 200
       /\ resp.content \in {C_empty, C_prose, C_noconf, C_notype, C_badtype, C_lowtype}

\* C2: when the external call fails in one of the listed ways, the item
\* classifier returns the pair of the item's id and the fallback's result
C2_FailureGivesFallback ==
  (pc = "item" /\ itemOut # << >> /\ ListedFailure(itemResp)) =>
     itemOut = << itemOpp.id, fallback_categorization(itemOpp) >>

\* a call that answered with a type outside the list was classified by a
\* keyword rule of the fallback
C2_Witness ==
  /\ pc = "item" /\ itemOut # << >>
  /\ itemResp = Response("ok", 200, C_badtype)
  /\ itemOut[2].type = "SIEM/SOC"

\* C3: every result stored in the results mapping has a type of the list of
\* twelve
C3_TypeInTaxonomy ==
  /\ Len(OPPORTUNITY_TYPES) = 12
  /\ \A id \in DOMAIN results : InTypes(results[id].type)
  /\ Answered => \A id \in DOMAIN response.results : InTypes(response.results[id].type)

\* the mapping holds a result of the service and a result of the fallback
C3_Witness ==
  /\ \E id \in DOMAIN results : results[id].reasoning = "ai"
  /\ \E id \in DOMAIN results : results[id].reasoning # "ai"

\* C4: every result of the returned mapping has a confidence from 0 to 100
C4_ConfidenceInRange ==
  Answered => \A id \in DOMAIN response.results :
                 response.results[id].confidence \in 0..100

\* C5: the returned processed_count is the number of keys of the returned
\* mapping, is at most the number of items, and every key is an input id
C5_CountMatchesMapping ==
  Answered =>
     /\ response.processed_count = Cardinality(DOMAIN response.results)
     /\ response.processed_count <= N
     /\ DOMAIN response.results \subseteq RequestIds

\* a batch is answered with fewer results than it has items
C5_Witness ==
  /\ Answered
  /\ response.processed_count > 0
  /\ response.processed_count < N

\* C6 as stated: if no invocation raises, processed_count is the number of
\* input items
C6_CountEqualsItems ==
  (Answered /\ NoneRaised) => response.processed_count = N

\* C6 amended: processed_count is below the number of items only if an
\* invocation raised or two items carry the same id; if no invocation raises
\* it is the number of distinct ids
C6_CountBelowOnlyIfRaisedOrDuplicate ==
  Answered =>
     /\ response.processed_count < N => (~NoneRaised \/ ~DistinctIds)
     /\ NoneRaised => response.processed_count = Cardinality(RequestIds)

\* no invocation raised, two items share an id and the count is below the
\* number of items
C6_Witness ==
  /\ Answered /\ NoneRaised /\ ~DistinctIds
  /\ response.processed_count < N

\* C7: no invocation of a later chunk is started before every invocation of
\* each earlier chunk has settled
C7_ChunksSequential ==
  \A a, b \in DOMAIN tasks :
     (ChunkOf(a) < ChunkOf(b) /\ tasks[b].st # "new") => Settled(a)

\* the second chunk is in flight after a first chunk in which an invocation
\* raised and another went to the fallback
C7_Witness ==
  /\ \E b \in DOMAIN tasks : ChunkOf(b) = 1 /\ tasks[b].st = "in_flight"
  /\ \E a \in DOMAIN tasks : ChunkOf(a) = 0 /\ tasks[a].st = "raised"
  /\ \E a \in DOMAIN tasks : ChunkOf(a) = 0 /\ tasks[a].st = "returned"

\* C8: at most five invocations are in flight at any moment
C8_AtMostFiveInFlight == Cardinality(InFlightSet) <= 5

\* five invocations of the second chunk are in flight
C8_Witness ==
  /\ Cardinality(InFlightSet) = 5
  /\ \A k \in InFlightSet : ChunkOf(k) = 1

\* number of chunks of n items
Chunks(n) == (n + 4) \div 5

\* C9: a batch of k chunks pauses k-1 times: once after each chunk but the
\* last, when the chunk has settled and its results are stored and before
\* the next chunk starts; never with an invocation in flight
C9_PausesBetweenChunks ==
  /\ Answered => pauses = Chunks(N) - 1
  /\ pc \in {"gather", "sleep"} =>
       pauses = ChunkOf(i + 1) + (IF pc = "sleep" THEN 1 ELSE 0)
  /\ pc = "sleep" =>
       /\ InFlightSet = {}
       /\ i + 5 < N
       /\ \A k \in 1..N :
            /\ k <= i + 5 => Settled(k)
            /\ (k <= i + 5 /\ tasks[k].st = "returned") => request[k].id \in DOMAIN results
            /\ k > i + 5 => tasks[k].st = "new"

\* a batch of twelve items, three chunks, was answered after two pauses
C9_Witness == Answered /\ N = 12 /\ Chunks(N) = 3 /\ pauses = 2

\* C10: an empty request is answered 400 without any processing
C10_EmptyRejected ==
  (N = 0 /\ pc = "done") =>
     /\ response.status = 400
     /\ "results" \notin DOMAIN response
     /\ results = EmptyDict
     /\ pauses = 0
     /\ \A k \in DOMAIN calls : calls[k] = 0
     /\ \A k \in DOMAIN tasks : tasks[k].st = "new"

\* the empty request was rejected
C10_Witness == N = 0 /\ pc = "done" /\ response.status = 400

\* the twelve keyword rules in their order: keywords, type, confidence
Rules ==
  << << {KW.assessment, KW.audit, KW.evaluation}, "Security Assessment", 70 >>,
     << {KW.cloud, KW.aws, KW.azure, KW.gcp}, "Cloud Security", 75 >>,
     << {KW.endpoint, KW.antivirus, KW.malware}, "Endpoint Security", 75 >>,
     << {KW.siem, KW.soc, KW.monitoring}, "SIEM/SOC", 80 >>,
     << {KW.identity, KW.access, KW.mfa, KW.authentication}, "Identity Management", 75 >>,
     << {KW.firewall, KW.network, KW.perimeter}, "Network Security", 75 >>,
     << {KW.data, KW.encryption, KW.backup, KW.protection}, "Data Protection", 75 >>,
     << {KW.vulnerability, KW.scanning, KW.penetration}, "Vulnerability Management", 75 >>,
     << {KW.compliance, KW.regulatory, KW.gdpr, KW.hipaa}, "Compliance & Audit", 75 >>,
     << {KW.incident, KW.response, KW.forensics}, "Incident Response", 75 >>,
     << {KW.training, KW.awareness, KW.phishing}, "Security Training", 75 >>,
     << {KW.mainframe, KW.legacy, KW.zos}, "Mainframe Security", 80 >> >>

\* name, description and on-hold reason ('' when absent), joined by single
\* spaces as line 166 joins them, lower-cased
LoweredText(o) ==
  lower(Chars(o.opportunityName) \o <<" ">> \o Chars(o.description) \o <<" ">>
        \o Chars(IF o.onHoldReason = {} THEN "" ELSE CHOOSE r \in o.onHoldReason : TRUE))

\* the rules having a keyword that is a substring of the text
Matching(o) ==
  { n \in 1..Len(Rules) : \E kw \in Rules[n][1] : Contains(LoweredText(o), kw) }

\* type and confidence of the lowest-numbered matching rule, else the default
FirstMatch(o) ==
  IF Matching(o) = {} THEN << "Security Assessment", 40 >>
  ELSE LET n == CHOOSE m \in Matching(o) : \A j \in Matching(o) : m <= j
       IN  << Rules[n][2], Rules[n][3] >>

\* C12: the fallback's result is the type and confidence of the
\* lowest-numbered rule with a keyword in the lower-cased text, the default
\* (Security Assessment, 40) when none matches; its type is of the list, its
\* confidence one of 40, 70, 75, 80; a text with "audit" and "cloud" gives
\* (Security Assessment, 70)
C12_FirstMatchingRuleWins ==
  (pc = "item" /\ itemOut # << >> /\ itemResp.net = "timeout") =>
     /\ << itemOut[2].type, itemOut[2].confidence >> = FirstMatch(itemOpp)
     /\ InTypes(itemOut[2].type)
     /\ itemOut[2].confidence \in {40, 70, 75, 80}
     /\ (Contains(LoweredText(itemOpp), KW.audit) /\ Contains(LoweredText(itemOpp), KW.cloud))
          => (itemOut[2].type = "Security Assessment" /\ itemOut[2].confidence = 70)
     /\ (Matching(itemOpp) = {}) => itemOut[2].reasoning = "Default fallback categorization"

\* the fallback classified a text holding "audit" and "cloud"
C12_Witness ==
  /\ pc = "item" /\ itemOut # << >> /\ itemResp.net = "timeout"
  /\ {1, 2} \subseteq Matching(itemOpp)
  /\ Contains(LoweredText(itemOpp), KW.audit)
  /\ itemOut[2].confidence = 70

\* the answers of the service that are valid: their type, confidence, reasoning
ValidAnswer(content) ==
  CASE content \in {C_ok, C_pad} -> [type |-> "Cloud Security", confidence |-> 85, reasoning |-> "ai"]
    [] content = C_hi -> [type |-> "Network Security", confidence |-> 150, reasoning |-> "ai"]
    [] content = C_neg -> [type |-> "Data Protection", confidence |-> 0 - 5, reasoning |-> "ai"]

\* C16: a 200 answer whose text parses to an object with the three fields and
\* a type of the list gives exactly that type, confidence and reasoning, also
\* when the confidence is outside 0..100
C16_ValidAnswerPassedThrough ==
  (/\ pc = "item" /\ itemOut # << >>
   /\ itemResp.net = "ok" /\ itemResp.status = 200
   /\ itemResp.content \in {C_ok, C_pad, C_hi, C_neg}) =>
     /\ itemOut = << itemOpp.id, ValidAnswer(itemResp.content) >>
     /\ itemOut[2] # fallback_categorization(itemOpp)

\* an answer with confidence 150 was returned as it came
C16_Witness ==
  /\ pc = "item" /\ itemOut # << >>
  /\ itemResp = Response("ok", 200, C_hi)
  /\ itemOut[2].confidence = 150

\* the positions whose invocation returned a pair
ReturnedSet == { k \in DOMAIN tasks : tasks[k].st = "returned" }

\* C14: the results mapping changes only in a step of the coordinating task
\* after the barrier, with no invocation in flight; a step in which an
\* invocation settles leaves it as it is
C14_ResultsWrittenAfterBarrier ==
  [][ /\ results' # results =>
           (pc = "gather" /\ InFlightSet = {} /\ pc' \in {"sleep", "done"})
      /\ (\E k \in DOMAIN tasks : tasks[k].st = "in_flight" /\ tasks'[k].st # "in_flight")
           => results' = results ]_vars

\* the first chunk's results are stored and the second chunk is in flight
C14_Witness ==
  /\ pc = "gather" /\ i = 5
  /\ Cardinality(DOMAIN results) = 5
  /\ InFlightSet # {}

\* C15: when an invocation raises, the request is still answered, every chunk
\* was processed, the mapping holds the ids of exactly the invocations that
\* returned, and an id no other item carries holds its invocation's result
C15_RaisedItemDropped ==
  (pc = "done" /\ N > 0) =>
     /\ response.status = 200
     /\ \A k \in 1..N : Settled(k)
     /\ DOMAIN response.results = { request[k].id : k \in ReturnedSet }
     /\ \A k \in ReturnedSet :
          (\A j \in 1..N : j # k => request[j].id # request[k].id)
             => response.results[request[k].id] = tasks[k].value[2]

\* an invocation of the first chunk raised: its id is absent, a sibling and an
\* item of the second chunk are present
C15_Witness ==
  /\ Answered /\ N > 5 /\ DistinctIds
  /\ \E k \in 1..5 : tasks[k].st = "raised" /\ request[k].id \notin DOMAIN response.results
  /\ \E k \in 1..5 : request[k].id \in DOMAIN response.results
  /\ \E k \in 6..N : request[k].id \in DOMAIN response.results

RECURSIVE Flat(_)
Flat(cs) == IF cs = << >> THEN << >> ELSE Head(cs) \o Flat(Tail(cs))

\* C17: the chunks launched are contiguous slices in input order: each has 1
\* to 5 items, each but the last of the request has 5, together they are the
\* positions 1, 2, ... in order, and all n positions once the request is
\* answered
C17_ChunksPartitionInput ==
  /\ \A c \in 1..Len(chunks) :
       /\ Len(chunks[c]) \in 1..5
       /\ c < Chunks(N) => Len(chunks[c]) = 5
  /\ Len(chunks) <= Chunks(N)
  /\ Flat(chunks) = [k \in 1..Len(Flat(chunks)) |-> k]
  /\ \A k \in 1..N : (tasks[k].st # "new") <=> (k <= Len(Flat(chunks)))
  /\ Answered => Len(Flat(chunks)) = N

\* twelve items were launched as chunks of 5, 5 and 2
C17_Witness ==
  /\ Answered /\ N = 12
  /\ Len(chunks) = 3
  /\ << Len(chunks[1]), Len(chunks[2]), Len(chunks[3]) >> = << 5, 5, 2 >>

\* C18: an item's invocation is launched once and issues one call: no item
\* has more than one call, a launched item has exactly one also after it
\* went to the fallback, and an answered request had one call per item
C18_OneCallPerItem ==
  /\ \A k \in 1..N : calls[k] = (IF tasks[k].st = "new" THEN 0 ELSE 1)
  /\ Cardinality({ k \in 1..N : calls[k] > 0 }) <= N
  /\ Answered => \A k \in 1..N : calls[k] = 1

\* an item of the first chunk went to the fallback and, two chunks later, has
\* still been called once
C18_Witness ==
  /\ pc = "gather" /\ i = 10
  /\ \E k \in 1..5 : /\ tasks[k].st = "returned"
                     /\ tasks[k].value[2].reasoning # "ai"
                     /\ calls[k] = 1

\* C20: an id carried by several items has a single entry, the result of the
\* last item in input order whose invocation returned; it has none when no
\* such invocation returned
C20_LastDuplicateWins ==
  Answered =>
     \A id \in RequestIds :
        LET ks == { k \in ReturnedSet : request[k].id = id }
        IN  IF ks = {} THEN id \notin DOMAIN response.results
            ELSE /\ id \in DOMAIN response.results
                 /\ response.results[id] =
                      tasks[CHOOSE m \in ks : \A j \in ks : j <= m].value[2]

\* two items of one chunk share an id, both returned, with different results,
\* and the mapping holds the later one's
C20_Witness ==
  /\ Answered
  /\ \E a, b \in ReturnedSet :
       /\ a < b /\ ChunkOf(a) = ChunkOf(b)
       /\ request[a].id = request[b].id
       /\ tasks[a].value[2] # tasks[b].value[2]
       /\ response.results[request[a].id] = tasks[b].value[2]

\* C19: under fairness every accepted request is answered in the end, and no
\* wait at a chunk's barrier lasts forever
C19_AcceptedRequestAnswered ==
  /\ (pc = "recv" /\ N > 0) ~> Answered
  /\ (pc = "gather") ~> (pc \in {"sleep", "done"})

\* a request of three chunks, one of whose calls timed out or failed, was
\* answered with all its ids
C19_Witness ==
  /\ Answered /\ Len(chunks) = 3
  /\ faults = 1
  /\ NoneRaised
  /\ Cardinality(DOMAIN response.results) = Cardinality(RequestIds)

\* what the loop of lines 268-281 stores from position k on, the chunks taken
\* in order and each item's pair in the order of the list, given the outcome
\* the service has for every item
RECURSIVE ExpectedFrom(_, _)
ExpectedFrom(res, k) ==
  IF k > N THEN res
  ELSE ExpectedFrom(IF svc[k] = RaiseOutcome
                      THEN res
                      ELSE Put(res, request[k].id, Invocation[request[k]][svc[k]][2]),
                    k + 1)

\* C11: with pairwise distinct ids the answered mapping holds, for every item
\* whose invocation returned, exactly what analyze_single_opportunity gives
\* for that item and the service's outcome for that item, whatever the
\* outcomes of the other items were; an item whose invocation raised is the
\* only one missing; and a non-empty request ends with a 200 response
C11_FailureIsolated ==
  /\ (pc = "done" /\ N > 0) => response.status = 200
  /\ (Answered /\ DistinctIds) =>
       \A k \in 1..N :
         IF svc[k] = RaiseOutcome
           THEN request[k].id \notin DOMAIN response.results
           ELSE /\ request[k].id \in DOMAIN response.results
                /\ response.results[request[k].id] = Invocation[request[k]][svc[k]][2]

\* a three-chunk request with distinct ids was answered although one call of
\* the first chunk ended in trouble; its siblings and the later chunks are there
C11_Witness ==
  /\ Answered /\ DistinctIds /\ N = 12
  /\ \E k \in 1..5 : svc[k] \in FaultyOutcomes
  /\ Cardinality(DOMAIN response.results) >= N - 1

\* C13: the response is a function of the request and of the service's
\* outcomes alone: every run, whatever the completion order of the calls
\* inside the chunks, ends with the same results mapping and processed_count
C13_ResponseDeterminedByBatch ==
  Answered => response = AnalysisResponse(ExpectedFrom(EmptyDict, 1))

\* a request with repeated ids over two chunks or more was answered, one of
\* the repeated items having an outcome that differs from the others'
C13_Witness ==
  /\ Answered /\ ~DistinctIds /\ N > batch_size
  /\ \E a, b \in 1..N : /\ a < b
                          /\ request[a].id = request[b].id
                          /\ svc[a] # svc[b]
                          /\ svc[a] # RaiseOutcome /\ svc[b] # RaiseOutcome
  /\ response.processed_count = Cardinality(DOMAIN response.results)

====
